---- MODULE Spec2Model ----
(***************************************************************************)
(* State machine of the RecyWise wizard, frontend/src/App.jsx.             *)
(*                                                                         *)
(* The React component App keeps seven pieces of state (useState, lines    *)
(* 111-131).  Every event handler runs to completion and React re-renders  *)
(* before the next event is handled, so one handler is one atomic action.  *)
(* The two asynchronous handlers (handleVinSubmit, handleGeneratePathway)  *)
(* are split at their single await: the part before the await is the       *)
(* action that issues the request, the continuation (try / catch /         *)
(* finally) is one action per outcome of the request.  State setters are   *)
(* applied to the current state, so a continuation overwrites whatever the *)
(* user did while the request was outstanding.                             *)
(***************************************************************************)
EXTENDS Integers, Sequences, FiniteSets, Bags, TLC

VARIABLES
  screen,            \* useState(1), line 111
  isLoading,         \* useState(false), line 112
  errorMsg,          \* useState(''), line 113
  vin,               \* useState(''), line 114: a sequence of characters
  vehicleData,       \* useState({year, make, model}), lines 116-120
  materials,         \* useState({Steel: 0, ...}), lines 122-129
  pathway,           \* useState(null), line 131
  decodeInFlight,    \* bag of pending axios.get calls of handleVinSubmit
  generateInFlight,  \* bag of pending axios.post calls of handleGeneratePathway
  last               \* the handler or continuation that ran last, with its input

vars == <<screen, isLoading, errorMsg, vin, vehicleData, materials, pathway,
          decodeInFlight, generateInFlight, last>>

-----------------------------------------------------------------------------
(* Bounds of the model *)

\* Longest VIN the user types in the model (the input allows VinMaxLength).
MaxVinLen == 5

\* Number of network requests that may be outstanding together.
MaxInFlight == 2

-----------------------------------------------------------------------------
(* Program constants *)

\* maxLength of the VIN input
VinMaxLength == 17

\* vin.length < 5 disables the Proceed button
MinVinLength == 5

NULL == "null"

\* A value of the pathway state: null, or the array of a response
JsNull == [isNull |-> TRUE, array |-> <<>>]
JsArray(a) == [isNull |-> FALSE, array |-> a]

NoError == ""
FillAllFieldsMsg == "Please fill in all fields."
GenerateFailedMsg == "Failed to generate pathway."

Screens == 1..9

MaterialNames == <<"Steel", "Aluminum", "Copper", "Plastics", "Rubber", "Glass">>

MaterialKeys == {MaterialNames[i] : i \in 1..Len(MaterialNames)}

VehicleFields == {"year", "make", "model"}

-----------------------------------------------------------------------------
(* JavaScript values and conversions *)

\* A value of the materials table: a number, or the text of an input.
Num(n) == [type |-> "number", num |-> n, str |-> <<>>]
Str(s) == [type |-> "string", num |-> 0, str |-> s]

DigitChars == <<"0", "1", "2", "3", "4", "5", "6", "7", "8", "9">>

DigitValue(c) == CHOOSE d \in 0..9 : DigitChars[d + 1] = c

\* parseFloat of a string of decimal digits; -1 stands for NaN.
RECURSIVE ParseDigits(_, _)
ParseDigits(s, acc) ==
  IF s = <<>> THEN acc
  ELSE ParseDigits(Tail(s), acc * 10 + DigitValue(Head(s)))

ParseFloat(s) == IF s = <<>> THEN -1 ELSE ParseDigits(s, 0)

\* String(n) for a natural number n
RECURSIVE NumberToString(_)
NumberToString(n) ==
  IF n < 10 THEN <<DigitChars[n + 1]>>
  ELSE Append(NumberToString(n \div 10), DigitChars[(n % 10) + 1])

\* The value attribute of a controlled input showing v
InputValue(v) == IF v.type = "string" THEN v.str ELSE NumberToString(v.num)

\* e.target.value === '' ? 0 : parseFloat(e.target.value) || 0
BlurValue(text) ==
  IF text = <<>> THEN 0
  ELSE IF ParseFloat(text) = -1 \/ ParseFloat(text) = 0 THEN 0
  ELSE ParseFloat(text)

LowerChars == <<"a", "b", "c", "d", "e", "f", "g", "h", "i", "j", "k", "l", "m",
                "n", "o", "p", "q", "r", "s", "t", "u", "v", "w", "x", "y", "z">>
UpperChars == <<"A", "B", "C", "D", "E", "F", "G", "H", "I", "J", "K", "L", "M",
                "N", "O", "P", "Q", "R", "S", "T", "U", "V", "W", "X", "Y", "Z">>

UpperChar(c) ==
  IF \E i \in 1..Len(LowerChars) : LowerChars[i] = c
  THEN UpperChars[CHOOSE i \in 1..Len(LowerChars) : LowerChars[i] = c]
  ELSE c

\* String.prototype.toUpperCase
ToUpperCase(s) == [i \in 1..Len(s) |-> UpperChar(s[i])]

\* !x for the strings held in vehicleData
Falsy(x) == x = ""

-----------------------------------------------------------------------------
(* Inputs *)

\* The placeholder VIN of the input, as typed in lower and in upper case
SampleVinLower == <<"1", "h", "g", "b", "h", "4", "1", "j", "x", "m", "n", "1", "0", "9", "1", "8", "6">>
SampleVinUpper == ToUpperCase(SampleVinLower)

VinLengths == {n \in {0} \cup ((MinVinLength - 1)..MaxVinLen) : n <= VinMaxLength}

\* What the user may leave in the VIN input
VinInputs == {SubSeq(s, 1, n) : s \in {SampleVinLower, SampleVinUpper}, n \in VinLengths}

\* What the user may leave in each input of the manual vehicle form: the year
\* is typed and cleared again, make and model are typed once
FieldInputs == [year |-> {"", "2015"}, make |-> {"Toyota"}, model |-> {"Camry"}]

\* Bodies of successful decode_vin responses
DecodeResponses == {[year |-> "2015", make |-> "Toyota", model |-> "Camry"]}

\* What the user may leave in a percentage input
MaterialInputs == {<<"6", "0">>}

\* The rows of the composition table the user edits
EditedKeys == {MaterialNames[1]}

\* Bodies (data.pathway) of successful generate_pathway responses.  A
\* projected_profit is the decimal literal of the body in hundredths: 12050
\* stands for 120.50, -10 for -0.10.
PathwayResponses ==
  { << [sequence |-> 1, action |-> "Dismantle", projected_profit |-> 12050],
       [sequence |-> 2, action |-> "Shred", projected_profit |-> -3000] >>,
    << [sequence |-> 1, action |-> "Dismantle", projected_profit |-> -10],
       [sequence |-> 2, action |-> "Shred", projected_profit |-> -20],
       [sequence |-> 3, action |-> "Recycle", projected_profit |-> 30] >> }

-----------------------------------------------------------------------------
(* Rendering: which controls the current screen shows *)

\* BackShown, had the loading screen rendered no Back button
BackShownNotWhileLoading == screen \in 2..9 /\ screen > 1 /\ screen # 8

\* BackShown, had the Container rendered the button on every screen
BackShownOnEveryScreen == screen \in 1..9

\* {screen > 1 && <BackButton/>} inside Container; screen 1 renders no Container
BackShown == screen \in 2..9 /\ screen > 1

\* ProceedDisabled, had the button ignored isLoading
ProceedDisabledIgnoresLoading == Len(vin) < MinVinLength

\* disabled={isLoading || vin.length < 5}
ProceedDisabled == isLoading \/ Len(vin) < MinVinLength

(* JavaScript numbers.  A number is an IEEE 754 binary64 value.  The model   *)
(* keeps its sign and its magnitude as a whole number of units of           *)
(* 2^-ScaleBits, written in binary (most significant digit first, no        *)
(* leading 0, <<>> for zero), because a significand of 53 bits does not fit  *)
(* the integers of the model checker.  Every nonzero amount of the model is  *)
(* at least one cent, so its binary64 value and every rounded sum of such    *)
(* values is a whole number of units.                                        *)

\* Bits of a binary64 significand
SignificandBits == 53

\* The unit of a magnitude is 2^-ScaleBits
ScaleBits == 64

Zeros(n) == [i \in 1..n |-> 0]

\* b without its leading 0 digits
StripZeros(b) ==
  IF \A i \in 1..Len(b) : b[i] = 0 THEN <<>>
  ELSE SubSeq(b, CHOOSE i \in 1..Len(b) : b[i] = 1 /\ \A j \in 1..(i - 1) : b[j] = 0, Len(b))

RECURSIVE BitsOfNat(_)
BitsOfNat(n) == IF n = 0 THEN <<>> ELSE Append(BitsOfNat(n \div 2), n % 2)

\* The number written by the first n digits of b
RECURSIVE NatOfBits(_, _)
NatOfBits(b, n) == IF n = 0 THEN 0 ELSE 2 * NatOfBits(b, n - 1) + b[n]

PadTo(b, n) == Zeros(n - Len(b)) \o b

\* Digits lo..hi of a + b + carry and the carry out of them, a and b of equal
\* length: the lower half first, its carry into the upper half
RECURSIVE AddRange(_, _, _, _, _)
AddRange(a, b, lo, hi, carry) ==
  IF lo = hi
  THEN [out |-> (a[lo] + b[lo] + carry) \div 2, digits |-> <<(a[lo] + b[lo] + carry) % 2>>]
  ELSE LET mid == (lo + hi) \div 2
           lower == AddRange(a, b, mid + 1, hi, carry)
           upper == IF lower.out = 1 THEN AddRange(a, b, lo, mid, 1)
                    ELSE AddRange(a, b, lo, mid, 0)
       IN [out |-> upper.out, digits |-> upper.digits \o lower.digits]

AddBits(a, b) ==
  LET n == IF Len(a) > Len(b) THEN Len(a) ELSE Len(b)
      sum == AddRange(PadTo(a, n), PadTo(b, n), 1, n, 0)
  IN IF n = 0 THEN <<>> ELSE StripZeros(<<sum.out>> \o sum.digits)

\* a - b for a >= b: a plus the complement of b plus 1, without the carry out
SubBits(a, b) ==
  LET n == IF Len(a) > Len(b) THEN Len(a) ELSE Len(b)
      complement == [i \in 1..n |-> 1 - PadTo(b, n)[i]]
  IN IF n = 0 THEN <<>> ELSE StripZeros(AddRange(PadTo(a, n), complement, 1, n, 1).digits)

LessBits(a, b) ==
  IF Len(a) # Len(b) THEN Len(a) < Len(b)
  ELSE \E i \in 1..Len(a) : a[i] < b[i] /\ \A j \in 1..(i - 1) : a[j] = b[j]

\* Round to nearest, ties to even, to a significand of 53 bits; sticky tells
\* that the exact value lies above the digits of b
RoundToSignificand(b, sticky) ==
  IF Len(b) <= SignificandBits THEN b
  ELSE LET keep == SubSeq(b, 1, SignificandBits)
           guard == b[SignificandBits + 1]
           rest == sticky \/ \E i \in (SignificandBits + 2)..Len(b) : b[i] = 1
           up == guard = 1 /\ (rest \/ keep[SignificandBits] = 1)
       IN (IF up THEN AddBits(keep, <<1>>) ELSE keep) \o Zeros(Len(b) - SignificandBits)

\* 2^k modulo 100
RECURSIVE Pow2Mod100(_)
Pow2Mod100(k) ==
  IF k = 0 THEN 1
  ELSE (Pow2Mod100(k \div 2) * Pow2Mod100(k \div 2) * (IF k % 2 = 1 THEN 2 ELSE 1)) % 100

\* The first n binary digits of r / 100 after the point, 0 <= r < 100
FractionBits(r, n) == [i \in 1..n |-> (2 * ((r * Pow2Mod100(i - 1)) % 100)) \div 100]

\* What is left of r / 100 below these n digits, in units of 2^-n / 100
FractionRest(r, n) == (r * Pow2Mod100(n)) % 100

\* The number JSON.parse yields for a decimal literal of c hundredths: the
\* binary64 value nearest to c / 100
DoubleOfCents(c) ==
  LET a == IF c < 0 THEN -c ELSE c
      exact == StripZeros(BitsOfNat(a \div 100) \o FractionBits(a % 100, ScaleBits))
  IN [neg |-> c < 0,
      mag |-> RoundToSignificand(exact, FractionRest(a % 100, ScaleBits) # 0)]

\* x + y of two numbers; a zero sum of opposite signs is +0
AddDouble(x, y) ==
  IF x.neg = y.neg THEN [neg |-> x.neg, mag |-> RoundToSignificand(AddBits(x.mag, y.mag), FALSE)]
  ELSE IF x.mag = y.mag THEN [neg |-> FALSE, mag |-> <<>>]
  ELSE IF LessBits(x.mag, y.mag)
       THEN [neg |-> y.neg, mag |-> RoundToSignificand(SubBits(y.mag, x.mag), FALSE)]
       ELSE [neg |-> x.neg, mag |-> RoundToSignificand(SubBits(x.mag, y.mag), FALSE)]

\* pathway.reduce((sum, step) => sum + step.projected_profit, 0)
RECURSIVE ReduceProfit(_, _)
ReduceProfit(steps, sum) ==
  IF steps = <<>> THEN sum
  ELSE ReduceProfit(Tail(steps), AddDouble(sum, DoubleOfCents(Head(steps).projected_profit)))

\* Number.prototype.toFixed(2): "-" for x < 0, then the integer n with n / 100
\* nearest to |x| (the larger n of two), with a point before its last two digits
ToFixed2(x) ==
  LET hundredfold == AddBits(AddBits(x.mag \o Zeros(6), x.mag \o Zeros(5)), x.mag \o Zeros(2))
      t == AddBits(hundredfold, <<1>> \o Zeros(ScaleBits - 1))
      n == NatOfBits(t, Len(t) - ScaleBits)
  IN (IF x.neg THEN <<"-">> ELSE <<>>)
       \o NumberToString(n \div 100)
       \o <<".", DigitChars[((n % 100) \div 10) + 1], DigitChars[(n % 10) + 1]>>

\* Screen 9, "Total Estimated Net Profit": pathway ? pathway.reduce(...).toFixed(2) : "0.00"
ProfitSummary ==
  IF ~pathway.isNull THEN ToFixed2(ReduceProfit(pathway.array, DoubleOfCents(0)))
  ELSE <<"0", ".", "0", "0">>

InFlightCount == BagCardinality(decodeInFlight) + BagCardinality(generateInFlight)

One(r) == SetToBag({r})

-----------------------------------------------------------------------------
Init ==
  /\ screen = 1
  /\ isLoading = FALSE
  /\ errorMsg = NoError
  /\ vin = <<>>
  /\ vehicleData = [year |-> "", make |-> "", model |-> ""]
  /\ materials = [k \in MaterialKeys |-> Num(0)]
  /\ pathway = JsNull
  /\ decodeInFlight = EmptyBag
  /\ generateInFlight = EmptyBag
  /\ last = [op |-> "init", arg |-> NULL]

-----------------------------------------------------------------------------
(* Synchronous handlers *)

\* Screen 1, "Start Optimization": onClick={() => setScreen(2)}
StartOptimization ==
  /\ screen = 1
  /\ screen' = 2
  /\ last' = [op |-> "StartOptimization", arg |-> NULL]
  /\ UNCHANGED <<isLoading, errorMsg, vin, vehicleData, materials, pathway,
                 decodeInFlight, generateInFlight>>

\* BackButton: onClick={() => setScreen(prev => prev - 1)}
Back ==
  /\ BackShown
  /\ screen' = screen - 1
  /\ last' = [op |-> "Back", arg |-> NULL]
  /\ UNCHANGED <<isLoading, errorMsg, vin, vehicleData, materials, pathway,
                 decodeInFlight, generateInFlight>>

\* Screen 2, VIN input: onChange={(e) => setVin(e.target.value.toUpperCase())}
SetVin(text) ==
  /\ screen = 2
  /\ Len(text) <= VinMaxLength
  /\ vin' = ToUpperCase(text)
  /\ last' = [op |-> "SetVin", arg |-> NULL]
  /\ UNCHANGED <<screen, isLoading, errorMsg, vehicleData, materials, pathway,
                 decodeInFlight, generateInFlight>>

\* Screen 3, inputs: onChange={(e) => setVehicleData({...vehicleData, f: e.target.value})}
SetVehicleField(f, text) ==
  /\ screen = 3
  /\ vehicleData' = [vehicleData EXCEPT ![f] = text]
  /\ last' = [op |-> "SetVehicleField", arg |-> NULL]
  /\ UNCHANGED <<screen, isLoading, errorMsg, vin, materials, pathway,
                 decodeInFlight, generateInFlight>>

\* handleManualVehicleSubmit, had the check left out vehicleData.model
handleManualVehicleSubmitSkipsModel ==
  /\ screen = 3
  /\ IF Falsy(vehicleData.year) \/ Falsy(vehicleData.make)
     THEN /\ errorMsg' = FillAllFieldsMsg
          /\ UNCHANGED screen
     ELSE /\ errorMsg' = NoError
          /\ screen' = 4
  /\ last' = [op |-> "handleManualVehicleSubmit", arg |-> NULL]
  /\ UNCHANGED <<isLoading, vin, vehicleData, materials, pathway,
                 decodeInFlight, generateInFlight>>

\* handleManualVehicleSubmit, had the success path left out setErrorMsg('')
handleManualVehicleSubmitKeepsError ==
  /\ screen = 3
  /\ IF Falsy(vehicleData.year) \/ Falsy(vehicleData.make) \/ Falsy(vehicleData.model)
     THEN /\ errorMsg' = FillAllFieldsMsg
          /\ UNCHANGED screen
     ELSE /\ UNCHANGED errorMsg
          /\ screen' = 4
  /\ last' = [op |-> "handleManualVehicleSubmit", arg |-> NULL]
  /\ UNCHANGED <<isLoading, vin, vehicleData, materials, pathway,
                 decodeInFlight, generateInFlight>>

\* Screen 3, "Confirm Vehicle"
handleManualVehicleSubmit ==
  /\ screen = 3
  /\ IF Falsy(vehicleData.year) \/ Falsy(vehicleData.make) \/ Falsy(vehicleData.model)
     THEN /\ errorMsg' = FillAllFieldsMsg
          /\ UNCHANGED screen
     ELSE /\ errorMsg' = NoError
          /\ screen' = 4
  /\ last' = [op |-> "handleManualVehicleSubmit", arg |-> NULL]
  /\ UNCHANGED <<isLoading, vin, vehicleData, materials, pathway,
                 decodeInFlight, generateInFlight>>

\* Screen 4, "Yes, Proceed to Materials": onClick={() => setScreen(5)}
ConfirmYes ==
  /\ screen = 4
  /\ screen' = 5
  /\ last' = [op |-> "ConfirmYes", arg |-> NULL]
  /\ UNCHANGED <<isLoading, errorMsg, vin, vehicleData, materials, pathway,
                 decodeInFlight, generateInFlight>>

\* ConfirmNo, had setVin('') been left out
ConfirmNoKeepsVin ==
  /\ screen = 4
  /\ screen' = 2
  /\ last' = [op |-> "ConfirmNo", arg |-> NULL]
  /\ UNCHANGED <<isLoading, errorMsg, vin, vehicleData, materials, pathway,
                 decodeInFlight, generateInFlight>>

\* Screen 4, "No, Enter Different VIN": onClick={() => { setVin(''); setScreen(2); }}
ConfirmNo ==
  /\ screen = 4
  /\ vin' = <<>>
  /\ screen' = 2
  /\ last' = [op |-> "ConfirmNo", arg |-> NULL]
  /\ UNCHANGED <<isLoading, errorMsg, vehicleData, materials, pathway,
                 decodeInFlight, generateInFlight>>

\* Screen 5, "AI Auto-Estimate": onClick={() => {}}
AIAutoEstimate ==
  /\ screen = 5
  /\ last' = [op |-> "AIAutoEstimate", arg |-> NULL]
  /\ UNCHANGED <<screen, isLoading, errorMsg, vin, vehicleData, materials, pathway,
                 decodeInFlight, generateInFlight>>

\* Screen 5, "Enter Composition Manually": onClick={() => setScreen(7)}
EnterCompositionManually ==
  /\ screen = 5
  /\ screen' = 7
  /\ last' = [op |-> "EnterCompositionManually", arg |-> NULL]
  /\ UNCHANGED <<isLoading, errorMsg, vin, vehicleData, materials, pathway,
                 decodeInFlight, generateInFlight>>

\* Screen 6, "Edit Values": onClick={() => setScreen(7)}
EditValues ==
  /\ screen = 6
  /\ screen' = 7
  /\ last' = [op |-> "EditValues", arg |-> NULL]
  /\ UNCHANGED <<isLoading, errorMsg, vin, vehicleData, materials, pathway,
                 decodeInFlight, generateInFlight>>

\* Screen 7, percentage input, onChange
MaterialChange(key, text) ==
  /\ screen = 7
  /\ materials' = [materials EXCEPT ![key] = Str(IF text = <<>> THEN <<>> ELSE text)]
  /\ last' = [op |-> "MaterialChange", arg |-> NULL]
  /\ UNCHANGED <<screen, isLoading, errorMsg, vin, vehicleData, pathway,
                 decodeInFlight, generateInFlight>>

\* Screen 7, percentage input, onBlur
MaterialBlur(key) ==
  /\ screen = 7
  /\ materials' = [materials EXCEPT ![key] = Num(BlurValue(InputValue(materials[key])))]
  /\ last' = [op |-> "MaterialBlur", arg |-> NULL]
  /\ UNCHANGED <<screen, isLoading, errorMsg, vin, vehicleData, pathway,
                 decodeInFlight, generateInFlight>>

\* Screen 7, "Save & Review"
handleSaveManualMaterials ==
  /\ screen = 7
  /\ screen' = 6
  /\ last' = [op |-> "handleSaveManualMaterials", arg |-> NULL]
  /\ UNCHANGED <<isLoading, errorMsg, vin, vehicleData, materials, pathway,
                 decodeInFlight, generateInFlight>>

\* ProcessNextVehicle, had it also reset the VIN and the vehicle
ProcessNextVehicleResets ==
  /\ screen = 9
  /\ screen' = 1
  /\ vin' = <<>>
  /\ vehicleData' = [year |-> "", make |-> "", model |-> ""]
  /\ last' = [op |-> "ProcessNextVehicle", arg |-> NULL]
  /\ UNCHANGED <<isLoading, errorMsg, materials, pathway,
                 decodeInFlight, generateInFlight>>

\* Screen 9, "Process Next Vehicle": onClick={() => setScreen(1)}
ProcessNextVehicle ==
  /\ screen = 9
  /\ screen' = 1
  /\ last' = [op |-> "ProcessNextVehicle", arg |-> NULL]
  /\ UNCHANGED <<isLoading, errorMsg, vin, vehicleData, materials, pathway,
                 decodeInFlight, generateInFlight>>

-----------------------------------------------------------------------------
(* handleVinSubmit: the call, and the continuation for each outcome *)

\* What the pending call of handleVinSubmit holds: the vin of the request URL
\* and the vehicleData of the render that created the handler.
DecodeCall == [vin |-> vin, vehicleData |-> vehicleData]

\* Screen 2, "Proceed": setIsLoading(true); setErrorMsg(''); axios.get(.../decode_vin/${vin})
handleVinSubmit ==
  /\ screen = 2
  /\ ~ProceedDisabled
  /\ InFlightCount < MaxInFlight
  /\ isLoading' = TRUE
  /\ errorMsg' = NoError
  /\ decodeInFlight' = decodeInFlight (+) One(DecodeCall)
  /\ last' = [op |-> "handleVinSubmit", arg |-> NULL]
  /\ UNCHANGED <<screen, vin, vehicleData, materials, pathway, generateInFlight>>

\* DecodeVinSuccess, had setVehicleData swapped make and model
DecodeVinSuccessSwapsFields(call, data) ==
  /\ BagIn(call, decodeInFlight)
  /\ decodeInFlight' = decodeInFlight (-) One(call)
  /\ vehicleData' = [year |-> data.year, make |-> data.model, model |-> data.make]
  /\ screen' = 4
  /\ isLoading' = FALSE
  /\ last' = [op |-> "DecodeVinSuccess", arg |-> data]
  /\ UNCHANGED <<errorMsg, vin, materials, pathway, generateInFlight>>

\* try: setVehicleData({year, make, model}); setScreen(4); finally: setIsLoading(false)
DecodeVinSuccess(call, data) ==
  /\ BagIn(call, decodeInFlight)
  /\ decodeInFlight' = decodeInFlight (-) One(call)
  /\ vehicleData' = [year |-> data.year, make |-> data.make, model |-> data.model]
  /\ screen' = 4
  /\ isLoading' = FALSE
  /\ last' = [op |-> "DecodeVinSuccess", arg |-> data]
  /\ UNCHANGED <<errorMsg, vin, materials, pathway, generateInFlight>>

\* DecodeVinFailure, had setIsLoading(false) run only after a success
DecodeVinFailureKeepsLoading(call) ==
  /\ BagIn(call, decodeInFlight)
  /\ decodeInFlight' = decodeInFlight (-) One(call)
  /\ screen' = 3
  /\ last' = [op |-> "DecodeVinFailure", arg |-> call]
  /\ UNCHANGED <<isLoading, errorMsg, vin, vehicleData, materials, pathway, generateInFlight>>

\* catch: setScreen(3); finally: setIsLoading(false)
DecodeVinFailure(call) ==
  /\ BagIn(call, decodeInFlight)
  /\ decodeInFlight' = decodeInFlight (-) One(call)
  /\ screen' = 3
  /\ isLoading' = FALSE
  /\ last' = [op |-> "DecodeVinFailure", arg |-> call]
  /\ UNCHANGED <<errorMsg, vin, vehicleData, materials, pathway, generateInFlight>>

-----------------------------------------------------------------------------
(* handleGeneratePathway: the call, and the continuation for each outcome *)

\* GeneratePayload, had it posted the initial composition instead of the current one
GeneratePayloadInitialMaterials ==
  [vehicle |-> vehicleData, materials |-> [k \in MaterialKeys |-> Num(0)]]

\* const payload = { vehicle: vehicleData, materials: materials }
GeneratePayload == [vehicle |-> vehicleData, materials |-> materials]

\* What the pending call of handleGeneratePathway holds: the payload posted and
\* the pathway of the render that created the handler.
GenerateCall == [payload |-> GeneratePayload, pathway |-> pathway]

\* handleGeneratePathway, had it begun with setErrorMsg('') as handleVinSubmit does
handleGeneratePathwayClearsError ==
  /\ screen = 6
  /\ InFlightCount < MaxInFlight
  /\ screen' = 8
  /\ errorMsg' = NoError
  /\ generateInFlight' = generateInFlight (+) One(GenerateCall)
  /\ last' = [op |-> "handleGeneratePathway", arg |-> NULL]
  /\ UNCHANGED <<isLoading, vin, vehicleData, materials, pathway, decodeInFlight>>

\* Screen 6, "Generate Optimized Pathway": setScreen(8); axios.post(.../generate_pathway, payload)
handleGeneratePathway ==
  /\ screen = 6
  /\ InFlightCount < MaxInFlight
  /\ screen' = 8
  /\ generateInFlight' = generateInFlight (+) One(GenerateCall)
  /\ last' = [op |-> "handleGeneratePathway", arg |-> NULL]
  /\ UNCHANGED <<isLoading, errorMsg, vin, vehicleData, materials, pathway, decodeInFlight>>

\* GeneratePathwaySuccess, had setPathway been left out
GeneratePathwaySuccessKeepsPathway(call, data) ==
  /\ BagIn(call, generateInFlight)
  /\ generateInFlight' = generateInFlight (-) One(call)
  /\ UNCHANGED pathway
  /\ screen' = 9
  /\ last' = [op |-> "GeneratePathwaySuccess", arg |-> data]
  /\ UNCHANGED <<isLoading, errorMsg, vin, vehicleData, materials, decodeInFlight>>

\* try: setPathway(response.data.pathway); setScreen(9)
GeneratePathwaySuccess(call, data) ==
  /\ BagIn(call, generateInFlight)
  /\ generateInFlight' = generateInFlight (-) One(call)
  /\ pathway' = JsArray(data)
  /\ screen' = 9
  /\ last' = [op |-> "GeneratePathwaySuccess", arg |-> data]
  /\ UNCHANGED <<isLoading, errorMsg, vin, vehicleData, materials, decodeInFlight>>

\* catch: setErrorMsg("Failed to generate pathway."); setScreen(6)
GeneratePathwayFailure(call) ==
  /\ BagIn(call, generateInFlight)
  /\ generateInFlight' = generateInFlight (-) One(call)
  /\ errorMsg' = GenerateFailedMsg
  /\ screen' = 6
  /\ last' = [op |-> "GeneratePathwayFailure", arg |-> call.pathway]
  /\ UNCHANGED <<isLoading, vin, vehicleData, materials, pathway, decodeInFlight>>

-----------------------------------------------------------------------------
UserAction ==
  \/ StartOptimization
  \/ Back
  \/ \E text \in VinInputs : SetVin(text)
  \/ handleVinSubmit
  \/ \E f \in VehicleFields : \E text \in FieldInputs[f] : SetVehicleField(f, text)
  \/ handleManualVehicleSubmit
  \/ ConfirmYes
  \/ ConfirmNo
  \/ AIAutoEstimate
  \/ EnterCompositionManually
  \/ EditValues
  \/ \E key \in EditedKeys : \E text \in MaterialInputs : MaterialChange(key, text)
  \/ \E key \in EditedKeys : MaterialBlur(key)
  \/ handleSaveManualMaterials
  \/ handleGeneratePathway
  \/ ProcessNextVehicle

NetworkCompletion ==
  \/ \E call \in BagToSet(decodeInFlight) : \E data \in DecodeResponses : DecodeVinSuccess(call, data)
  \/ \E call \in BagToSet(decodeInFlight) : DecodeVinFailure(call)
  \/ \E call \in BagToSet(generateInFlight) : \E data \in PathwayResponses : GeneratePathwaySuccess(call, data)
  \/ \E call \in BagToSet(generateInFlight) : GeneratePathwayFailure(call)

Next == UserAction \/ NetworkCompletion

Spec == Init /\ [][Next]_vars

\* A pending axios.get settles: its promise is fulfilled or rejected
DecodeCompletion ==
  \/ \E call \in BagToSet(decodeInFlight) : \E data \in DecodeResponses : DecodeVinSuccess(call, data)
  \/ \E call \in BagToSet(decodeInFlight) : DecodeVinFailure(call)

\* A pending axios.post settles: its promise is fulfilled or rejected
GenerateCompletion ==
  \/ \E call \in BagToSet(generateInFlight) : \E data \in PathwayResponses : GeneratePathwaySuccess(call, data)
  \/ \E call \in BagToSet(generateInFlight) : GeneratePathwayFailure(call)

\* The wizard with a network that settles every request: the continuation of
\* a settled promise is run by the event loop without waiting for the user.
FairSpec == Spec /\ WF_vars(DecodeCompletion) /\ WF_vars(GenerateCompletion)

-----------------------------------------------------------------------------
(* Properties *)

DecodeCount == BagCardinality(decodeInFlight)
GenerateCount == BagCardinality(generateInFlight)

AnyFieldEmpty ==
  Falsy(vehicleData.year) \/ Falsy(vehicleData.make) \/ Falsy(vehicleData.model)

\* C1: in every reachable state the step is an integer in 1..9, and Back is
\* not offered at step 1, so the step never drops below 1.
C1_StepInRange ==
  /\ screen \in Int
  /\ screen \in Screens
  /\ screen = 1 => ~BackShown

\* C1 witness: Back has brought the wizard to step 1.
C1_Witness == last.op = "Back" /\ screen = 1

\* C2 (as claimed): at most one network request, of either kind, is
\* outstanding in any reachable state.
C2_AtMostOneRequest == DecodeCount + GenerateCount <= 1

\* C3 (as claimed): while a generate_pathway request is outstanding the step
\* is 8, no Back is offered there, and no second generate_pathway request is
\* outstanding.
C3_LoadingLocksUser ==
  GenerateCount > 0 => (screen = 8 /\ ~BackShown /\ GenerateCount = 1)

\* C4 (as claimed): whenever the step is 8 a generate_pathway request is
\* outstanding, so its completion will leave the loading step.
C4_LoadingHasRequest == screen = 8 => GenerateCount > 0

\* C5: a decode_vin request is issued only at step 2 with a VIN of length >= 5
\* and isLoading false; isLoading is true exactly while a decode_vin request
\* is outstanding; at most one is outstanding; a submit issues exactly one
\* request and a failure issues none.
C5_DecodeIssue ==
  /\ [](isLoading <=> DecodeCount > 0)
  /\ [](DecodeCount <= 1)
  /\ [][ /\ (DecodeCount' > DecodeCount =>
               /\ last'.op = "handleVinSubmit"
               /\ screen = 2 /\ Len(vin) >= MinVinLength /\ ~isLoading)
         /\ (last'.op = "handleVinSubmit" =>
               decodeInFlight' = decodeInFlight (+) One([vin |-> vin, vehicleData |-> vehicleData]))
         /\ (last'.op = "DecodeVinFailure" => DecodeCount' = DecodeCount - 1) ]_vars

\* C5 witness: a VIN was submitted at step 2 while a generate_pathway request
\* was outstanding, and the one decode_vin request of this submit is outstanding.
C5_Witness ==
  /\ last.op = "handleVinSubmit"
  /\ screen = 2 /\ Len(vin) >= MinVinLength
  /\ isLoading /\ DecodeCount = 1
  /\ GenerateCount > 0

\* C6: after a successful decode_vin the step is 4 and vehicleData is the
\* decoded year, make and model, whatever they were before.
C6_DecodeSuccess ==
  last.op = "DecodeVinSuccess" =>
    /\ screen = 4
    /\ vehicleData = [year |-> last.arg.year, make |-> last.arg.make, model |-> last.arg.model]

\* C6 witness: a decode_vin request succeeded while a generate_pathway request
\* was outstanding (so it completed away from step 2).
C6_Witness ==
  /\ last.op = "DecodeVinSuccess"
  /\ screen = 4
  /\ vehicleData \in DecodeResponses
  /\ GenerateCount > 0

\* C7 (as claimed): after a failed decode_vin the step is 3 and vehicleData is
\* what it was when the VIN was submitted.
C7_DecodeFailureKeepsVehicle ==
  last.op = "DecodeVinFailure" =>
    (screen = 3 /\ vehicleData = last.arg.vehicleData)

\* C8 (as claimed): right after a failed decode_vin the error message is empty.
C8_DecodeFailureNoMessage ==
  last.op = "DecodeVinFailure" => errorMsg = NoError

\* C9: a manual submit at step 3 with an empty year, make or model leaves the
\* step and vehicleData unchanged and sets the message "Please fill in all fields.".
C9_ManualSubmitIncomplete ==
  [][ (last'.op = "handleManualVehicleSubmit" /\ AnyFieldEmpty) =>
        /\ screen = 3 /\ screen' = screen
        /\ vehicleData' = vehicleData
        /\ errorMsg' = "Please fill in all fields." ]_vars

\* C9 witness: a manual submit with only the model missing was refused.
C9_Witness ==
  /\ last.op = "handleManualVehicleSubmit"
  /\ screen = 3
  /\ errorMsg = FillAllFieldsMsg
  /\ ~Falsy(vehicleData.year) /\ ~Falsy(vehicleData.make) /\ Falsy(vehicleData.model)

\* C10: a manual submit at step 3 with year, make and model all filled in
\* empties the error message and moves to step 4, vehicleData unchanged.
C10_ManualSubmitComplete ==
  [][ (last'.op = "handleManualVehicleSubmit" /\ ~AnyFieldEmpty) =>
        /\ screen = 3 /\ screen' = 4
        /\ errorMsg' = ""
        /\ vehicleData' = vehicleData ]_vars

\* C10 witness: a manual submit with all three fields filled in was accepted.
C10_Witness ==
  /\ last.op = "handleManualVehicleSubmit"
  /\ screen = 4
  /\ errorMsg = NoError
  /\ ~AnyFieldEmpty

\* Sum of projected_profit over the first n entries of p, in hundredths
RECURSIVE SumOfProfits(_, _)
SumOfProfits(p, n) ==
  IF n = 0 THEN 0 ELSE SumOfProfits(p, n - 1) + p[n].projected_profit

\* An amount of c hundredths written with two decimals
DecimalText(c) ==
  LET a == IF c < 0 THEN -c ELSE c
  IN (IF c < 0 THEN <<"-">> ELSE <<>>)
       \o NumberToString(a \div 100)
       \o <<".", DigitChars[((a % 100) \div 10) + 1], DigitChars[(a % 10) + 1]>>

ExampleResponse ==
  << [sequence |-> 1, action |-> "Dismantle", projected_profit |-> 12050],
     [sequence |-> 2, action |-> "Shred", projected_profit |-> -3000] >>

\* C11 (as claimed): after a successful generate_pathway the step is 9, pathway
\* is the response's sequence in the same order, and the total shown is the sum
\* of projected_profit over its entries (90.50 for the example response).
C11_GenerateSuccess ==
  last.op = "GeneratePathwaySuccess" =>
    /\ screen = 9
    /\ ~pathway.isNull
    /\ pathway.array = last.arg
    /\ ProfitSummary = DecimalText(SumOfProfits(pathway.array, Len(pathway.array)))
    /\ (last.arg = ExampleResponse => ProfitSummary = <<"9", "0", ".", "5", "0">>)

\* C12 (as claimed): after a failed generate_pathway the step is 6, the message
\* is "Failed to generate pathway." and pathway is what it was when the request
\* was issued.
C12_GenerateFailure ==
  last.op = "GeneratePathwayFailure" =>
    /\ screen = 6
    /\ errorMsg = "Failed to generate pathway."
    /\ pathway = last.arg

\* C13 (as claimed): with complete decode payloads, at every step >= 5 year,
\* make and model are all non-empty, and every outstanding generate_pathway
\* request was issued with a complete vehicle.
C13_CompleteVehicle ==
  /\ screen >= 5 => ~AnyFieldEmpty
  /\ \A call \in BagToSet(generateInFlight) :
       /\ ~Falsy(call.payload.vehicle.year)
       /\ ~Falsy(call.payload.vehicle.make)
       /\ ~Falsy(call.payload.vehicle.model)

\* The state other than the step and the history variable
DomainData ==
  <<isLoading, errorMsg, vin, vehicleData, materials, pathway,
    decodeInFlight, generateInFlight>>

\* C14: "Process Next Vehicle" acts only at step 9 and yields step 1, leaving
\* vehicleData, materials, pathway, vin and the error message unchanged.
C14_ProcessNextVehicle ==
  [][ last'.op = "ProcessNextVehicle" =>
        /\ screen = 9 /\ screen' = 1
        /\ vehicleData' = vehicleData /\ materials' = materials
        /\ pathway' = pathway /\ vin' = vin /\ errorMsg' = errorMsg ]_vars

\* C14 witness: after "Process Next Vehicle" step 1 still holds the previous
\* vehicle, VIN, pathway and an error message.
C14_Witness ==
  /\ last.op = "ProcessNextVehicle"
  /\ screen = 1
  /\ ~AnyFieldEmpty /\ vin # <<>> /\ ~pathway.isNull /\ errorMsg # NoError

\* C15: Back is enabled at every step > 1, also at steps 8 and 9 and while a
\* request is outstanding; it sets the step to step - 1 and changes nothing
\* else, and cancels no outstanding request.
C15_Back ==
  /\ [](screen > 1 => ENABLED Back)
  /\ [][ last'.op = "Back" =>
           /\ screen > 1 /\ screen' = screen - 1
           /\ DomainData' = DomainData ]_vars

\* C15 witness: Back was pressed on the loading screen (step 8 to 7) and the
\* generate_pathway request is still outstanding.
C15_Witness ==
  /\ last.op = "Back"
  /\ screen = 7
  /\ GenerateCount > 0

\* C16: "No" at step 4 yields step 2 with the VIN empty and everything else
\* unchanged, so Proceed is disabled; the VIN gets a length >= 5 again only by
\* typing into the VIN input.
C16_ConfirmNo ==
  [][ /\ (last'.op = "ConfirmNo" =>
            /\ screen = 4 /\ screen' = 2
            /\ vin' = <<>>
            /\ <<isLoading, errorMsg, vehicleData, materials, pathway,
                 decodeInFlight, generateInFlight>>'
                 = <<isLoading, errorMsg, vehicleData, materials, pathway,
                     decodeInFlight, generateInFlight>>
            /\ ProceedDisabled')
      /\ ~(Len(vin) < MinVinLength /\ DecodeCount' > DecodeCount)
      /\ ((Len(vin) < MinVinLength /\ Len(vin') >= MinVinLength) => last'.op = "SetVin") ]_vars

\* C16 witness: "No" was pressed with a VIN in the input, which is now empty.
C16_Witness ==
  /\ last.op = "ConfirmNo"
  /\ screen = 2
  /\ vin = <<>>
  /\ ~AnyFieldEmpty

\* C17: with a network that settles every request, isLoading true leads to
\* isLoading false, an outstanding decode_vin leads to its continuation having
\* set step 4 or 3, an outstanding generate_pathway to step 9 or 6.
C17_RequestsResolve ==
  /\ isLoading ~> ~isLoading
  /\ (DecodeCount > 0) ~>
       (last.op \in {"DecodeVinSuccess", "DecodeVinFailure"} /\ screen \in {4, 3})
  /\ (GenerateCount > 0) ~>
       (last.op \in {"GeneratePathwaySuccess", "GeneratePathwayFailure"} /\ screen \in {9, 6})

\* C17 witness: a decode_vin failure has cleared isLoading and left the user
\* at step 3 while a generate_pathway request is still outstanding.
C17_Witness ==
  /\ last.op = "DecodeVinFailure"
  /\ ~isLoading /\ screen = 3
  /\ GenerateCount > 0

\* C18: "Generate" at step 6 sets step 8 at once and issues one request whose
\* payload is vehicleData and materials of that moment; later handlers other
\* than the request's own continuation leave the outstanding requests as issued.
C18_GenerateSnapshot ==
  [][ /\ (last'.op = "handleGeneratePathway" =>
            /\ screen = 6 /\ screen' = 8
            /\ \E call \in BagToSet(generateInFlight') :
                 /\ call.payload = [vehicle |-> vehicleData, materials |-> materials]
                 /\ generateInFlight' = generateInFlight (+) One(call))
      /\ (last'.op \notin {"handleGeneratePathway", "GeneratePathwaySuccess",
                           "GeneratePathwayFailure"} =>
            generateInFlight' = generateInFlight)
      /\ (last'.op \in {"GeneratePathwaySuccess", "GeneratePathwayFailure"} =>
            \E call \in BagToSet(generateInFlight) :
              generateInFlight' = generateInFlight (-) One(call)) ]_vars

\* C18 witness: vehicleData and materials were both edited after the trigger
\* and the outstanding request still holds the values of the trigger.
C18_Witness ==
  \E call \in BagToSet(generateInFlight) :
    /\ call.payload.vehicle # vehicleData
    /\ call.payload.materials # materials
    /\ call.payload.vehicle.year = "2015"
    /\ call.payload.materials["Steel"] = Num(60)

\* C19: at step 9 pathway is not null.
C19_ResultsHavePathway == screen = 9 => ~pathway.isNull

\* C19 witness: a generate_pathway request succeeded, entering step 9, while
\* another one is still outstanding.
C19_Witness ==
  /\ last.op = "GeneratePathwaySuccess"
  /\ screen = 9
  /\ ~pathway.isNull
  /\ GenerateCount > 0

\* C20: the error message changes only in handleVinSubmit,
\* handleManualVehicleSubmit and the generate_pathway failure, and goes from
\* set to empty only in handleVinSubmit and in a manual submit that reaches
\* step 4; every other handler leaves it unchanged.
C20_ErrorMessageFrame ==
  [][ /\ (errorMsg' # errorMsg =>
            last'.op \in {"handleVinSubmit", "handleManualVehicleSubmit",
                          "GeneratePathwayFailure"})
      /\ ((errorMsg # NoError /\ errorMsg' = NoError) =>
            \/ last'.op = "handleVinSubmit"
            \/ (last'.op = "handleManualVehicleSubmit" /\ screen' = 4))
      /\ (last'.op \in {"Back", "StartOptimization", "ConfirmYes", "ConfirmNo",
                        "EnterCompositionManually", "EditValues",
                        "handleSaveManualMaterials", "handleGeneratePathway",
                        "GeneratePathwaySuccess", "ProcessNextVehicle"} =>
            errorMsg' = errorMsg) ]_vars

\* C20 witness: "Failed to generate pathway." is still set at step 9 right
\* after a later generate_pathway succeeded.
C20_Witness ==
  /\ last.op = "GeneratePathwaySuccess"
  /\ screen = 9
  /\ errorMsg = GenerateFailedMsg

====
